---- MODULE Spec2Model ----
(***************************************************************************)
(* Model of tools/resharper-cleanupcode.py: tool restore, then for each    *)
(* configured solution the changed-file scope computation, the solution    *)
(* file check, the build and the cleanup, and the summary line of the      *)
(* finally block.                                                          *)
(*                                                                         *)
(* A string is a sequence of characters.  To keep the strings short, the   *)
(* words that the script never looks into ("NuGetForUnity", "src", "cs",   *)
(* ...) are single characters of the alphabet; the characters the script   *)
(* tests or inserts ("/", ".", ";", "=", "*", "-") are characters of       *)
(* their own.  The file system holds no symbolic links, so os.path.realpath*)
(* is os.path.abspath, and os.sep is "/".                                  *)
(***************************************************************************)
EXTENDS Naturals, Sequences, FiniteSets

\* Longest changed-file list on the command line.
MaxFiles == 2

(***************************************************************************)
(* str and os.path                                                         *)
(***************************************************************************)
sep == "/"

\* str.startswith
startswith(s, p) == Len(s) >= Len(p) /\ SubSeq(s, 1, Len(p)) = p

\* str.endswith
endswith(s, p) == Len(s) >= Len(p) /\ SubSeq(s, Len(s) - Len(p) + 1, Len(s)) = p

\* str.split(c): the pieces between the occurrences of c, empty pieces kept
RECURSIVE split(_, _)
split(s, c) ==
    IF \A k \in 1..Len(s) : s[k] # c
    THEN <<s>>
    ELSE LET k == CHOOSE j \in 1..Len(s) : s[j] = c /\ \A m \in 1..(j - 1) : s[m] # c
         IN  <<SubSeq(s, 1, k - 1)>> \o split(SubSeq(s, k + 1, Len(s)), c)

\* c.join(parts)
RECURSIVE join(_, _)
join(parts, c) ==
    IF parts = <<>> THEN <<>>
    ELSE IF Len(parts) = 1 THEN parts[1]
    ELSE parts[1] \o <<c>> \o join(Tail(parts), c)

\* the components of a path, without the empty ones
RECURSIVE components(_)
components(parts) ==
    IF parts = <<>> THEN <<>>
    ELSE IF Head(parts) = <<>> THEN components(Tail(parts))
    ELSE <<Head(parts)>> \o components(Tail(parts))

\* posixpath.normpath's loop over the components: "." is dropped, ".." pops
\* the component before it (at the root of an absolute path it is dropped,
\* at the start of a relative path it is kept)
RECURSIVE collapse(_, _, _)
collapse(comps, done, absolute) ==
    IF comps = <<>> THEN done
    ELSE LET c == Head(comps) IN
         IF c = <<".">> THEN collapse(Tail(comps), done, absolute)
         ELSE IF c # <<".", ".">> THEN collapse(Tail(comps), Append(done, c), absolute)
         ELSE IF done # <<>> /\ done[Len(done)] # <<".", ".">>
              THEN collapse(Tail(comps), SubSeq(done, 1, Len(done) - 1), absolute)
         ELSE IF done = <<>> /\ absolute THEN collapse(Tail(comps), done, absolute)
         ELSE collapse(Tail(comps), Append(done, c), absolute)

\* os.path.isabs
isabs(p) == startswith(p, <<sep>>)

\* os.path.normpath
normpath(p) ==
    LET comps == collapse(components(split(p, sep)), <<>>, isabs(p))
    IN  IF isabs(p) THEN <<sep>> \o join(comps, sep)
        ELSE IF comps = <<>> THEN <<".">>
        ELSE join(comps, sep)

\* os.path.join(a, b)
pathjoin(a, b) ==
    IF isabs(b) THEN b
    ELSE IF a = <<>> \/ endswith(a, <<sep>>) THEN a \o b
    ELSE a \o <<sep>> \o b

\* os.path.realpath of a path that is absolute once joined (no symbolic links)
realpath(p) == normpath(p)

\* os.path.dirname
dirname(p) ==
    LET idx  == {k \in 1..Len(p) : p[k] = sep}
        last == IF idx = {} THEN 0 ELSE CHOOSE k \in idx : \A m \in idx : m <= k
        head == SubSeq(p, 1, last)
    IN  IF head # <<>> /\ \E k \in 1..Len(head) : head[k] # sep
        THEN LET n == CHOOSE k \in 1..Len(head) :
                          head[k] # sep /\ \A m \in (k + 1)..Len(head) : head[m] = sep
             IN  SubSeq(head, 1, n)
        ELSE head

\* os.path.basename
basename(p) ==
    LET idx  == {k \in 1..Len(p) : p[k] = sep}
        last == IF idx = {} THEN 0 ELSE CHOOSE k \in idx : \A m \in idx : m <= k
    IN  SubSeq(p, last + 1, Len(p))

\* the length of the longest common prefix of two component lists
RECURSIVE commonprefix(_, _)
commonprefix(a, b) ==
    IF a = <<>> \/ b = <<>> \/ Head(a) # Head(b) THEN 0
    ELSE 1 + commonprefix(Tail(a), Tail(b))

\* os.path.relpath(path, start), both absolute
relpath(path, start) ==
    LET start_list == components(split(normpath(start), sep))
        path_list  == components(split(normpath(path), sep))
        n          == commonprefix(start_list, path_list)
        rel_list   == [k \in 1..(Len(start_list) - n) |-> <<".", ".">>]
                          \o SubSeq(path_list, n + 1, Len(path_list))
    IN  IF rel_list = <<>> THEN <<".">> ELSE join(rel_list, sep)

(***************************************************************************)
(* The script's constants (lines 6-12)                                     *)
(***************************************************************************)
NuGetForUnity == <<"NuGetForUnity">>
Tests == <<"NuGetForUnity", ".", "Tests">>
Cli == <<"NuGetForUnity", ".", "Cli">>
CliTests == <<"NuGetForUnity", ".", "Cli", ".", "Tests">>
PluginAPI == <<"NuGetForUnity", ".", "PluginAPI">>
sln == <<".", "sln">>

\* sys.argv[0]: the script lies in the tools directory of the repository
argv0 == <<"/", "repo", "/", "tools", "/", "resharper-cleanupcode", ".", "py">>

scriptLocation == dirname(realpath(argv0))

repositoryRoot == dirname(scriptLocation)

solutionFiles ==
    << <<"src", "/">> \o Tests \o <<"/">> \o Tests \o sln,
       <<"src", "/">> \o Cli \o <<"/">> \o Cli \o sln,
       <<"src", "/">> \o PluginAPI \o <<"/">> \o PluginAPI \o sln >>

toolsRoot == repositoryRoot

\* line 11 without the trailing os.sep
MainPackageFolderWithoutSep ==
    realpath(pathjoin(repositoryRoot, <<"src", "/">> \o NuGetForUnity))

mainPackageFolder ==
    realpath(pathjoin(repositoryRoot, <<"src", "/">> \o NuGetForUnity)) \o <<sep>>

cliTestsProjectFolder ==
    realpath(pathjoin(repositoryRoot, <<"src", "/">> \o CliTests)) \o <<sep>>

Solutions == 1..Len(solutionFiles)

\* line 20
solutionFileOf(n) == realpath(pathjoin(repositoryRoot, solutionFiles[n]))

\* line 21
solutionDirOf(n) == dirname(solutionFileOf(n))

(***************************************************************************)
(* The scope of one solution (lines 22-48)                                 *)
(***************************************************************************)
\* line 28
absoluteChangedFileOf(changedFile) == realpath(pathjoin(repositoryRoot, changedFile))

\* lines 31-40 without the NuGetForUnity.PluginAPI branch of lines 35-37
KeepsExternalFileWithoutPluginBranch(solutionFile, absoluteChangedFile) ==
    IF endswith(solutionFile, Cli \o sln)
    THEN startswith(absoluteChangedFile, cliTestsProjectFolder)
    ELSE startswith(absoluteChangedFile, mainPackageFolder)

\* lines 31-40: whether the solution keeps a changed file whose relative
\* path starts with ".."
keepsExternalFile(solutionFile, absoluteChangedFile) ==
    IF endswith(solutionFile, Cli \o sln)
    THEN startswith(absoluteChangedFile, cliTestsProjectFolder)
    ELSE IF endswith(solutionFile, PluginAPI \o sln)
    THEN FALSE
    ELSE startswith(absoluteChangedFile, mainPackageFolder)

\* line 44 falling back to the absolute path instead of the pattern
FallbackAbsolutePath(absoluteChangedFile) == absoluteChangedFile

\* line 44
fallbackPattern(absoluteChangedFile) ==
    <<"*", "*", sep>> \o basename(absoluteChangedFile)

\* lines 28-45 for one changed file: whether it is appended, and as what
scopeEntry(solutionFile, solutionDir, changedFile) ==
    LET absoluteChangedFile == absoluteChangedFileOf(changedFile)
        relative            == relpath(absoluteChangedFile, solutionDir)
    IN  IF startswith(relative, <<".", ".">>)
        THEN IF keepsExternalFile(solutionFile, absoluteChangedFile)
             THEN [keep |-> TRUE, entry |-> fallbackPattern(absoluteChangedFile)]
             ELSE [keep |-> FALSE, entry |-> <<>>]
        ELSE [keep |-> TRUE, entry |-> relative]

\* line 45
appendEntry(cleanupArg, changedFile) == cleanupArg \o <<";">> \o changedFile

\* lines 26-45: the loop over sys.argv[1:]
RECURSIVE accumulate(_, _, _, _)
accumulate(solutionFile, solutionDir, files, cleanupArg) ==
    IF files = <<>> THEN cleanupArg
    ELSE LET e == scopeEntry(solutionFile, solutionDir, Head(files))
         IN  accumulate(solutionFile, solutionDir, Tail(files),
                        IF e.keep THEN appendEntry(cleanupArg, e.entry) ELSE cleanupArg)

includePrefix == <<"-", "-", "include", "=">>

\* line 22 comparing with < instead of <=
NoChangedFilesStrict(files) == Len(files) + 1 < 1

\* line 22
noChangedFiles(files) == Len(files) = 0

\* lines 22-45
cleanupArgOf(n, files) ==
    IF noChangedFiles(files) THEN <<>>
    ELSE accumulate(solutionFileOf(n), solutionDirOf(n), files, includePrefix)

\* lines 22, 46: the solution is skipped
skipsSolution(files, arg) == ~noChangedFiles(files) /\ endswith(arg, <<"=">>)

(***************************************************************************)
(* The command lines and file systems of the model.  A command-line        *)
(* argument names a file, relative to the repository root or absolute; it  *)
(* never names the directory of a solution or a directory above it.        *)
(***************************************************************************)
F(dir, name) == <<"src", "/">> \o dir \o <<"/">> \o name

ChangedFileChoices ==
    { F(Tests, <<"A", ".", "cs">>),
      F(NuGetForUnity, <<"A", ".", "cs">>),
      F(Cli, <<"B", ".", "cs">>),
      F(CliTests, <<"B", ".", "cs">>),
      F(PluginAPI, <<"A", ".", "cs">>),
      F(<<"Other">>, <<"A", ".", "cs">>),
      F(PluginAPI, <<".", ".", "hidden", "/", "A", ".", "cs">>),
      F(Cli, <<"sub", "/", "B", "=">>),
      F(Cli, <<".", ".", "/">> \o Tests \o <<"/", "sub", "/", "A", ".", "cs">>),
      <<"/", "repo", "/", "src", "/">> \o PluginAPI \o <<"/", "B", ".", "cs">>,
      F(NuGetForUnity, <<".", ".", "hidden", "/", "B", "=">>),
      F(Tests, <<".", ".", "hidden", "/", "B", ".", "cs">>),
      F(CliTests, <<"sub", "/", "A", ".", "cs">>),
      <<".", ".", "/", "Other", "/", "A", ".", "cs">>,
      <<"A", ".", "cs">> }

RECURSIVE ListsUpTo(_)
ListsUpTo(n) ==
    IF n = 0 THEN {<<>>}
    ELSE LET shorter == ListsUpTo(n - 1)
         IN  shorter \cup {Append(l, f) : l \in {x \in shorter : Len(x) = n - 1},
                                          f \in ChangedFileChoices}

(***************************************************************************)
(* The run                                                                 *)
(***************************************************************************)
VARIABLES
    changedFiles,  \* sys.argv[1:]
    isfile,        \* isfile[n]: the file of solution n exists
    pc,            \* where the run is
    solution,      \* the position of the for loop of line 18 in solutionFiles
    cleanupArg,    \* the scope of the current solution
    calls,         \* the subprocess.run calls so far, in order, with their outcome
    skipped,       \* the solutions left by the continue of line 48
    resolved,      \* the solutions whose scope (lines 19-48) has been computed
    output,        \* the lines printed so far
    error          \* the exception that ended the run, if any

vars == <<changedFiles, isfile, pc, solution, cleanupArg, calls, skipped, resolved,
          output, error>>

Init ==
    /\ changedFiles \in ListsUpTo(MaxFiles)
    /\ isfile \in [Solutions -> BOOLEAN]
    /\ pc = "restore"
    /\ solution = 1
    /\ cleanupArg = <<>>
    /\ calls = <<>>
    /\ skipped = {}
    /\ resolved = {}
    /\ output = <<>>
    /\ error = "none"

\* subprocess.run(..., check = True): the call and how it ended
Call(cmd, n, arg, ok) == [cmd |-> cmd, solution |-> n, arg |-> arg, ok |-> ok]

\* an exception raised where no finally block catches it
RaisedWithoutFinally == "done"

\* where an exception raised inside the try block of line 17 leads
raisedInTry == "finally"

\* line 14 without check = True
ToolRestoreUnchecked ==
    /\ pc = "restore"
    /\ \E ok \in BOOLEAN :
          /\ calls' = Append(calls, Call("restore", 0, <<>>, ok))
          /\ pc' = "scope"
          /\ error' = error
    /\ UNCHANGED <<changedFiles, isfile, solution, cleanupArg, skipped, resolved, output>>

\* line 14
ToolRestore ==
    /\ pc = "restore"
    /\ \E ok \in BOOLEAN :
          /\ calls' = Append(calls, Call("restore", 0, <<>>, ok))
          /\ IF ok THEN pc' = "scope" /\ error' = error
                   ELSE pc' = "done" /\ error' = "CalledProcessError"
    /\ UNCHANGED <<changedFiles, isfile, solution, cleanupArg, skipped, resolved, output>>

\* lines 18-48
ResolveScope ==
    /\ pc = "scope"
    /\ solution \in Solutions
    /\ LET arg == cleanupArgOf(solution, changedFiles) IN
          /\ cleanupArg' = arg
          /\ resolved' = resolved \cup {solution}
          /\ IF skipsSolution(changedFiles, arg)
             THEN /\ skipped' = skipped \cup {solution}
                  /\ solution' = solution + 1
                  /\ pc' = "scope"
             ELSE /\ pc' = "isfile"
                  /\ UNCHANGED <<skipped, solution>>
    /\ UNCHANGED <<changedFiles, isfile, calls, output, error>>

\* line 18: the loop is over
LoopEnd ==
    /\ pc = "scope"
    /\ solution \notin Solutions
    /\ pc' = "finally"
    /\ UNCHANGED <<changedFiles, isfile, solution, cleanupArg, calls, skipped, resolved,
                   output, error>>

\* lines 50-51
CheckSolutionFile ==
    /\ pc = "isfile"
    /\ IF isfile[solution]
       THEN pc' = "build" /\ error' = error
       ELSE pc' = raisedInTry /\ error' = "SystemExit"
    /\ UNCHANGED <<changedFiles, isfile, solution, cleanupArg, calls, skipped, resolved, output>>

\* lines 53-56
Build ==
    /\ pc = "build"
    /\ \E ok \in BOOLEAN :
          /\ calls' = Append(calls, Call("build", solution, <<>>, ok))
          /\ IF ok THEN /\ pc' = "cleanup"
                        /\ output' = Append(output, "Building solution took")
                        /\ error' = error
                   ELSE /\ pc' = raisedInTry
                        /\ output' = output
                        /\ error' = "CalledProcessError"
    /\ UNCHANGED <<changedFiles, isfile, solution, cleanupArg, skipped, resolved>>

\* lines 57-60
Cleanup ==
    /\ pc = "cleanup"
    /\ \E ok \in BOOLEAN :
          /\ calls' = Append(calls, Call("cleanup", solution, cleanupArg, ok))
          /\ IF ok THEN /\ pc' = "scope"
                        /\ solution' = solution + 1
                        /\ output' = Append(output, "Cleanup of solution took")
                        /\ error' = error
                   ELSE /\ pc' = raisedInTry
                        /\ solution' = solution
                        /\ output' = output
                        /\ error' = "CalledProcessError"
    /\ UNCHANGED <<changedFiles, isfile, cleanupArg, skipped, resolved>>

\* lines 62-63
Finally ==
    /\ pc = "finally"
    /\ output' = Append(output, "Total resharper cleanup took")
    /\ pc' = "done"
    /\ UNCHANGED <<changedFiles, isfile, solution, cleanupArg, calls, skipped, resolved, error>>

Next ==
    \/ ToolRestore
    \/ ResolveScope
    \/ LoopEnd
    \/ CheckSolutionFile
    \/ Build
    \/ Cleanup
    \/ Finally

Spec == Init /\ [][Next]_vars

(***************************************************************************)
(* Vocabulary of the properties                                            *)
(***************************************************************************)
\* the components of a path
Comps(p) == components(split(p, sep))

\* path p lies inside directory dir, at any depth
Under(p, dir) ==
    LET a == Comps(p)
        d == Comps(dir)
    IN  Len(a) > Len(d) /\ SubSeq(a, 1, Len(d)) = d

\* the directory src/<name> of the repository
SrcDir(name) == <<"/", "repo", "/", "src", "/">> \o name

\* the configured solution whose file is src/<name>/<name>.sln
SolutionNamed(name) ==
    CHOOSE n \in Solutions : solutionFiles[n] = <<"src", "/">> \o name \o <<"/">> \o name \o sln

\* file f lies inside the directory of solution n
LiesInside(n, f) == \E name \in {Tests, Cli, PluginAPI} :
                        n = SolutionNamed(name) /\ Under(absoluteChangedFileOf(f), SrcDir(name))

\* the path of a file inside dir, relative to dir
RelativeTo(p, dir) == join(SubSeq(Comps(p), Len(Comps(dir)) + 1, Len(Comps(p))), sep)

\* the ownership policy for a changed file outside the solution's directory:
\* Cli accepts the files under src/NuGetForUnity.Cli.Tests, Tests the files
\* under src/NuGetForUnity, PluginAPI none
Accepts(n, f) ==
    \/ n = SolutionNamed(Cli) /\ Under(absoluteChangedFileOf(f), SrcDir(CliTests))
    \/ n = SolutionNamed(Tests) /\ Under(absoluteChangedFileOf(f), SrcDir(NuGetForUnity))

\* file f lies under none of the five project directories
LiesUnderNoProject(f) ==
    \A name \in {Tests, NuGetForUnity, Cli, CliTests, PluginAPI} :
        ~Under(absoluteChangedFileOf(f), SrcDir(name))

\* The same, tabulated over the command-line arguments of the model, so that
\* a state's changed files are looked up instead of computed again.
InsideTable == [n \in Solutions |-> {f \in ChangedFileChoices : LiesInside(n, f)}]

AcceptsTable == [n \in Solutions |-> {f \in ChangedFileChoices : Accepts(n, f)}]

UnderNoProjectTable == {f \in ChangedFileChoices : LiesUnderNoProject(f)}

\* what the loop of lines 26-45 does with file f for solution n
EntryTable ==
    [n \in Solutions |->
        [f \in ChangedFileChoices |-> scopeEntry(solutionFileOf(n), solutionDirOf(n), f)]]

\* the relative path of a file inside the directory of solution n
RelativeTable ==
    [n \in Solutions |->
        [f \in InsideTable[n] |-> RelativeTo(absoluteChangedFileOf(f), solutionDirOf(n))]]

\* "**/<basename>" of file f
GlobTable ==
    [f \in ChangedFileChoices |->
        <<"*", "*", "/">> \o Comps(absoluteChangedFileOf(f))[Len(Comps(absoluteChangedFileOf(f)))]]

\* the k-th changed file lies inside the directory of solution n
Inside(n, k) == changedFiles[k] \in InsideTable[n]

\* the policy of solution n accepts the k-th changed file
PolicyAccepts(n, k) == changedFiles[k] \in AcceptsTable[n]

\* the k-th changed file lies under none of the five project directories
UnderNoProject(k) == changedFiles[k] \in UnderNoProjectTable

\* what the loop of lines 26-45 does with the k-th changed file for solution n
EntryOf(n, k) == EntryTable[n][changedFiles[k]]

\* the entries the changed files contribute to solution n, in command-line order
RECURSIVE EntriesFrom(_, _)
EntriesFrom(n, k) ==
    IF k > Len(changedFiles) THEN <<>>
    ELSE (IF EntryOf(n, k).keep THEN <<EntryOf(n, k).entry>> ELSE <<>>) \o EntriesFrom(n, k + 1)

EntriesOf(n) == EntriesFrom(n, 1)

\* the entries of an include expression: what follows "--include=", cut at ";"
IncludeEntries(arg) ==
    IF ~startswith(arg, includePrefix) THEN <<>>
    ELSE split(SubSeq(arg, Len(includePrefix) + 1, Len(arg)), ";")

\* s contains sub
Contains(s, sub) == \E k \in 1..(Len(s) - Len(sub) + 1) : SubSeq(s, k, k + Len(sub) - 1) = sub

CallsOf(cmd, n) == {k \in DOMAIN calls : calls[k].cmd = cmd /\ calls[k].solution = n}

CleanupCalls == {k \in DOMAIN calls : calls[k].cmd = "cleanup"}

FailedCalls == {k \in DOMAIN calls : ~calls[k].ok}

SummaryPrinted == \E k \in DOMAIN output : output[k] = "Total resharper cleanup took"

\* solution n was built, the build succeeded, and it was then cleaned
BuiltThenCleaned(n) ==
    \E k \in CallsOf("build", n) : calls[k].ok /\ k + 1 \in CallsOf("cleanup", n)

(***************************************************************************)
(* C1                                                                      *)
(***************************************************************************)
\* C1: for a non-empty changed-file list, the include expression passed to
\* the cleanup step is "--include=" followed by the qualifying entries in
\* command-line order, joined by single semicolons, with no semicolon right
\* after the prefix and none at the end.
C1_IncludeIsPrefixThenJoinedEntries ==
    changedFiles # <<>> =>
        \A k \in CleanupCalls :
            calls[k].arg = includePrefix \o join(EntriesOf(calls[k].solution), ";")

(***************************************************************************)
(* C2                                                                      *)
(***************************************************************************)
\* C2: once the scope of a solution is computed, every changed file that
\* lies inside the solution's directory has contributed exactly its path
\* relative to that directory: it is neither dropped nor replaced.
C2_InsideFileKeepsRelativePath ==
    \A n \in resolved : \A k \in DOMAIN changedFiles :
        Inside(n, k) =>
            EntryOf(n, k) = [keep |-> TRUE, entry |-> RelativeTable[n][changedFiles[k]]]

(***************************************************************************)
(* C3                                                                      *)
(***************************************************************************)
\* C3: for a non-empty changed-file list, a solution whose scope is computed
\* is skipped if and only if no changed file qualifies for it.
C3_SkippedIffNoneQualifies ==
    changedFiles # <<>> =>
        \A n \in resolved : (n \in skipped) <=> (EntriesOf(n) = <<>>)

(***************************************************************************)
(* C4                                                                      *)
(***************************************************************************)
\* a failed subprocess is the last one the run invokes
StopsAtFailure == \A k \in FailedCalls : k = Len(calls)

\* C4 as stated: a failed subprocess (tool restore, build or cleanup) is the
\* last one invoked, and the run that it ends has printed the summary line.
C4_SummaryAfterAnyFailure ==
    /\ StopsAtFailure
    /\ (pc = "done" /\ FailedCalls # {}) => SummaryPrinted

\* C4 amended: a failed subprocess is the last one invoked; the run that a
\* failed build or cleanup ends has printed the summary line, the run that
\* a failed tool restore ends has invoked nothing else and printed nothing.
C4_SummaryAfterBuildOrCleanupFailure ==
    /\ StopsAtFailure
    /\ (pc = "done" /\ FailedCalls # {}) =>
          IF calls[Len(calls)].cmd = "restore"
          THEN Len(calls) = 1 /\ output = <<>>
          ELSE SummaryPrinted /\ output[Len(output)] = "Total resharper cleanup took"

C4_Witness ==
    /\ pc = "done"
    /\ Len(calls) > 3
    /\ calls[Len(calls)].cmd = "cleanup"
    /\ ~calls[Len(calls)].ok
    /\ SummaryPrinted

(***************************************************************************)
(* C5                                                                      *)
(***************************************************************************)
\* every changed file lies outside the directory of solution n and is
\* rejected by its ownership policy
AllForeignAndRejected(n) ==
    /\ changedFiles # <<>>
    /\ \A k \in DOMAIN changedFiles : ~Inside(n, k) /\ ~PolicyAccepts(n, k)

\* C5: when every changed file lies outside a solution's directory and is
\* rejected by its policy, the files contribute nothing to its scope, the
\* solution is skipped, neither build nor cleanup is ever invoked for it,
\* and the run goes on with the next configured solution.
C5_RejectedForeignFilesSkipSolution ==
    \A n \in Solutions :
        AllForeignAndRejected(n) =>
            /\ EntriesOf(n) = <<>>
            /\ CallsOf("build", n) = {} /\ CallsOf("cleanup", n) = {}
            /\ n \in resolved => n \in skipped /\ solution > n

C5_Witness ==
    \E n \in Solutions :
        /\ AllForeignAndRejected(n)
        /\ n \in skipped
        /\ \E m \in Solutions : m > n /\ CallsOf("cleanup", m) # {}

(***************************************************************************)
(* C6                                                                      *)
(***************************************************************************)
\* C6: no entry of an include expression passed to the cleanup step begins
\* with "..", and a changed file outside the solution's directory that the
\* policy accepts is expressed as "**/<basename>", in the scope and in the
\* include expression of every cleanup of that solution.
C6_NoParentTraversalEntry ==
    /\ \A c \in CleanupCalls :
          \A j \in DOMAIN IncludeEntries(calls[c].arg) :
              ~startswith(IncludeEntries(calls[c].arg)[j], <<".", ".">>)
    /\ \A n \in Solutions : \A k \in DOMAIN changedFiles :
          (~Inside(n, k) /\ PolicyAccepts(n, k)) =>
              LET glob == GlobTable[changedFiles[k]]
              IN  /\ EntryOf(n, k) = [keep |-> TRUE, entry |-> glob]
                  /\ \A c \in CallsOf("cleanup", n) :
                        \E j \in DOMAIN IncludeEntries(calls[c].arg) :
                            IncludeEntries(calls[c].arg)[j] = glob

C6_Witness ==
    \E k \in DOMAIN changedFiles :
        /\ ~Inside(SolutionNamed(Cli), k)
        /\ PolicyAccepts(SolutionNamed(Cli), k)
        /\ \E c \in CallsOf("cleanup", SolutionNamed(Cli)) :
              \E j \in DOMAIN IncludeEntries(calls[c].arg) :
                  startswith(IncludeEntries(calls[c].arg)[j], <<"*", "*", "/">>)

(***************************************************************************)
(* C7                                                                      *)
(***************************************************************************)
\* C7: once the run has reached a solution whose file does not exist, it
\* stays at that solution and ends with "can't find the solution file":
\* nothing is built or cleaned for that solution or a later one.
C7_MissingSolutionFileAborts ==
    \A n \in resolved :
        ~isfile[n] =>
            /\ solution = n
            /\ pc \in {"isfile", "finally", "done"}
            /\ pc # "isfile" => error = "SystemExit"
            /\ \A k \in DOMAIN calls : calls[k].solution < n

(***************************************************************************)
(* C8                                                                      *)
(***************************************************************************)
\* C8: tool restore is invoked exactly once, first, and has succeeded
\* before any build; a cleanup directly follows the successful build of
\* the same solution; a build follows either tool restore or the finished
\* cleanup of an earlier configured solution.
C8_StrictOrder ==
    /\ pc # "restore" => calls # <<>>
    /\ \A k \in DOMAIN calls : (calls[k].cmd = "restore") <=> (k = 1)
    /\ \A k \in DOMAIN calls :
          calls[k].cmd = "build" =>
              /\ k > 1 /\ calls[1].ok
              /\ \/ k = 2
                 \/ /\ calls[k - 1].cmd = "cleanup"
                    /\ calls[k - 1].ok
                    /\ calls[k - 1].solution < calls[k].solution
    /\ \A k \in DOMAIN calls :
          calls[k].cmd = "cleanup" =>
              /\ k > 1
              /\ calls[k - 1].cmd = "build"
              /\ calls[k - 1].ok
              /\ calls[k - 1].solution = calls[k].solution

C8_Witness ==
    /\ pc = "done"
    /\ FailedCalls = {}
    /\ \A n \in Solutions : BuiltThenCleaned(n)

(***************************************************************************)
(* C9                                                                      *)
(***************************************************************************)
\* with no changed file, nothing is skipped and no cleanup gets an
\* --include filter
NothingSkippedNothingFiltered ==
    /\ skipped = {}
    /\ \A c \in CleanupCalls : ~Contains(calls[c].arg, <<"-", "-", "include">>)

\* C9 as stated: with no changed file, nothing is skipped, no cleanup gets
\* an --include filter, and a run that ends with no failed subprocess has
\* built and then cleaned every configured solution whose file exists.
C9_EveryExistingSolutionCleaned ==
    changedFiles = <<>> =>
        /\ NothingSkippedNothingFiltered
        /\ (pc = "done" /\ FailedCalls = {}) =>
              \A n \in Solutions : isfile[n] => BuiltThenCleaned(n)

\* C9 amended: with no changed file, nothing is skipped, no cleanup gets an
\* --include filter, and a run that ends with no failed subprocess has
\* built and then cleaned every configured solution whose file exists and
\* that no configured solution with a missing file precedes.
C9_EveryExistingSolutionBeforeMissingCleaned ==
    changedFiles = <<>> =>
        /\ NothingSkippedNothingFiltered
        /\ (pc = "done" /\ FailedCalls = {}) =>
              \A n \in Solutions :
                  (\A m \in Solutions : m <= n => isfile[m]) => BuiltThenCleaned(n)

C9_Witness ==
    /\ changedFiles = <<>>
    /\ pc = "done"
    /\ ~isfile[SolutionNamed(PluginAPI)]
    /\ BuiltThenCleaned(SolutionNamed(Tests))
    /\ BuiltThenCleaned(SolutionNamed(Cli))
    /\ \A c \in CleanupCalls : calls[c].arg = <<>>

(***************************************************************************)
(* C10                                                                     *)
(***************************************************************************)
\* C10: a changed file contributes an entry to the scope of at most one of
\* the configured solutions, and to none when it lies under none of the
\* five project directories; a run whose changed files all lie under none
\* of them invokes no build and no cleanup.
C10_ExclusiveOwnership ==
    /\ \A k \in DOMAIN changedFiles :
          /\ Cardinality({n \in Solutions : EntryOf(n, k).keep}) <= 1
          /\ UnderNoProject(k) => \A n \in Solutions : ~EntryOf(n, k).keep
    /\ (changedFiles # <<>> /\ \A k \in DOMAIN changedFiles : UnderNoProject(k)) =>
          /\ \A c \in DOMAIN calls : calls[c].cmd = "restore"
          /\ resolved \subseteq skipped

C10_Witness ==
    /\ changedFiles # <<>>
    /\ \A k \in DOMAIN changedFiles : UnderNoProject(k)
    /\ pc = "done"
    /\ skipped = Solutions
    /\ SummaryPrinted

====
